---- MODULE Spec2Model ----
(***************************************************************************)
(* A model of the FEN parser of src/fen.rs.  A string is a sequence of     *)
(* one-character strings.  parse_fen is a state machine over its loop      *)
(* position: the section split, the outer loop over the rank substrings    *)
(* and the inner loop over the characters of one rank.                     *)
(***************************************************************************)
EXTENDS Integers, Sequences, FiniteSets, TLC

VARIABLES input, pc, pieces, ranks, rank_index, char_index, file_index,
          expanded_ranks, result

vars == <<input, pc, pieces, ranks, rank_index, char_index, file_index,
          expanded_ranks, result>>

(***************************************************************************)
(* Characters.                                                             *)
(***************************************************************************)

\* The characters of the model with their code points: ' ' is 32, '-' is 45,
\* '/' is 47, '0'..'9' are 48..57, 'A'..'Z' are 65..90, 'a'..'z' are 97..122.
DigitChars == <<"0", "1", "2", "3", "4", "5", "6", "7", "8", "9">>
UpperChars ==
  <<"A", "B", "C", "D", "E", "F", "G", "H", "I", "J", "K", "L", "M",
    "N", "O", "P", "Q", "R", "S", "T", "U", "V", "W", "X", "Y", "Z">>
LowerChars ==
  <<"a", "b", "c", "d", "e", "f", "g", "h", "i", "j", "k", "l", "m",
    "n", "o", "p", "q", "r", "s", "t", "u", "v", "w", "x", "y", "z">>

IndexOf(seq, c) == CHOOSE i \in 1..Len(seq) : seq[i] = c
Range(seq) == {seq[i] : i \in 1..Len(seq)}

\* The code point of a character (the order that range patterns use).
Ord(c) ==
  CASE c \in Range(DigitChars) -> 47 + IndexOf(DigitChars, c)
    [] c \in Range(UpperChars) -> 64 + IndexOf(UpperChars, c)
    [] c \in Range(LowerChars) -> 96 + IndexOf(LowerChars, c)
    [] c = " " -> 32
    [] c = "-" -> 45
    [] c = "/" -> 47

\* char::is_uppercase on the modelled characters.
is_uppercase(c) == Ord(c) >= Ord("A") /\ Ord(c) <= Ord("Z")

\* char::to_digit(10) for a decimal digit.
to_digit(c) == Ord(c) - Ord("0")

\* The match arm '1'..'8' of parse_fen: a half-open range of characters.
IsSkipDigit(c) == Ord(c) >= Ord("1") /\ Ord(c) < Ord("8")

\* Display of a usize, as format!("{}") prints it.
RECURSIVE ToDecimal(_)
ToDecimal(n) ==
  IF n < 10 THEN <<DigitChars[n + 1]>>
  ELSE ToDecimal(n \div 10) \o <<DigitChars[(n % 10) + 1]>>

(***************************************************************************)
(* str::split: the substrings between the separators, empty ones kept.     *)
(***************************************************************************)
RECURSIVE Split(_, _)
Split(s, sep) ==
  IF \A i \in 1..Len(s) : s[i] # sep THEN <<s>>
  ELSE LET i == CHOOSE j \in 1..Len(s) :
                  s[j] = sep /\ \A k \in 1..(j - 1) : s[k] # sep
       IN <<SubSeq(s, 1, i - 1)>> \o Split(SubSeq(s, i + 1, Len(s)), sep)

(***************************************************************************)
(* Pieces, squares, errors and results.                                    *)
(***************************************************************************)
PieceColour == {"White", "Black"}

Pawn(colour, target) == [kind |-> "Pawn", colour |-> colour, target |-> target]
Knight(colour) == [kind |-> "Knight", colour |-> colour]
Bishop(colour) == [kind |-> "Bishop", colour |-> colour]
Rook(colour) == [kind |-> "Rook", colour |-> colour]
Queen(colour) == [kind |-> "Queen", colour |-> colour]
King(colour) == [kind |-> "King", colour |-> colour]
Empty == [kind |-> "Empty"]

InvalidPiece(c) == [variant |-> "InvalidPiece", invalid_piece |-> c]
InvalidSectionCount(n) == [variant |-> "InvalidSectionCount", count |-> n]
DuplicateSquare == [variant |-> "DuplicateSquare"]

Ok(v) == [kind |-> "Ok", value |-> v]
Err(e) == [kind |-> "Err", error |-> e]
\* The unwinding of an out-of-bounds index: no Result is returned.
Panic == [kind |-> "Panic"]
\* parse_fen has not returned yet.
Pending == [kind |-> "Pending"]

\* The vector ('a'..='h') that location indexes.
Files == <<"a", "b", "c", "d", "e", "f", "g", "h">>

\* The index expression of location is out of bounds: the call panics.
LocationPanics(rank, file) == file >= Len(Files)

location(rank, file) == <<Files[file + 1]>> \o ToDecimal(rank)

\* Mutation of piece_colour: the two colours swapped.
piece_colour_swapped(piece) == IF is_uppercase(piece) THEN "Black" ELSE "White"

piece_colour(piece) == IF is_uppercase(piece) THEN "White" ELSE "Black"

parse_piece(piece, pawn_is_target) ==
  LET colour == piece_colour(piece) IN
  CASE piece \in {"P", "p"} -> Ok(Pawn(colour, pawn_is_target))
    [] piece \in {"N", "n"} -> Ok(Knight(colour))
    [] piece \in {"B", "b"} -> Ok(Bishop(colour))
    [] piece \in {"R", "r"} -> Ok(Rook(colour))
    [] piece \in {"Q", "q"} -> Ok(Queen(colour))
    [] piece \in {"K", "k"} -> Ok(King(colour))
    [] OTHER -> Err(InvalidPiece(piece))

\* HashMap::insert: the map afterwards (an existing value is replaced).
Insert(map, key, value) ==
  [k \in (DOMAIN map) \cup {key} |-> IF k = key THEN value ELSE map[k]]

EmptyMap == [k \in {} |-> Empty]

(***************************************************************************)
(* The inputs.                                                             *)
(***************************************************************************)
MaxLen == 3
MaxShort == 1

\* The characters of the longer generated placements.
CoreAlphabet == {"1", "4", "8", "/", " ", "P", "p", "K", "Z"}

\* The characters of the short generated placements: every piece letter,
\* every decimal digit, the separators and some other characters.
FullAlphabet ==
  {"P", "N", "B", "R", "Q", "K", "p", "n", "b", "r", "q", "k",
   "0", "1", "2", "3", "4", "5", "6", "7", "8", "9",
   "/", " ", "-", "Z", "a"}

Strings(alphabet, n) == UNION {[1..m -> alphabet] : m \in 0..n}

Bodies == Strings(CoreAlphabet, MaxLen) \cup Strings(FullAlphabet, MaxShort)

\* What follows the generated placement: the other five sections, with
\* several en-passant targets, and tails with too few sections.
Tails ==
  { <<" ", "w", " ", "-", " ", "-", " ", "0", " ", "1">>,
    <<" ", "w", " ", "-", " ", "a", "0", " ", "0", " ", "1">>,
    <<" ", "b", " ", "-", " ", "e", "0", " ", "0", " ", "1">>,
    <<" ", "w", " ", "a", "0", " ", "b", "1", " ", "0", " ", "1">>,
    <<" ", "w", " ", "-", " ", "-", " ", "0">>,
    <<" ", "w", " ", "-", " ", "-">>,
    <<>> }

\* "8/8/8/8/8/8/8/8 w - - 0 1"
EmptyBoardInput ==
  <<"8", "/", "8", "/", "8", "/", "8", "/", "8", "/", "8", "/", "8", "/", "8",
    " ", "w", " ", "-", " ", "-", " ", "0", " ", "1">>

\* "8/8/8/8/8/8/8/8 w - -"
ShortInput ==
  <<"8", "/", "8", "/", "8", "/", "8", "/", "8", "/", "8", "/", "8", "/", "8",
    " ", "w", " ", "-", " ", "-">>

\* "7/7/7/7/7/7/7/7 w - - 0 1"
SevensInput ==
  <<"7", "/", "7", "/", "7", "/", "7", "/", "7", "/", "7", "/", "7", "/", "7",
    " ", "w", " ", "-", " ", "-", " ", "0", " ", "1">>

\* "KQ6/7/7/7/7/7/7/7 w - - 0 1"
AdjacentInput ==
  <<"K", "Q", "6", "/", "7", "/", "7", "/", "7", "/", "7", "/", "7", "/", "7", "/", "7",
    " ", "w", " ", "-", " ", "-", " ", "0", " ", "1">>

\* "Z7/7/7/7/7/7/7/7 w - - 0 1"
InvalidInput ==
  <<"Z", "7", "/", "7", "/", "7", "/", "7", "/", "7", "/", "7", "/", "7", "/", "7",
    " ", "w", " ", "-", " ", "-", " ", "0", " ", "1">>

\* "////////K w - - 0 1": nine rank substrings.
NineRanksInput ==
  <<"/", "/", "/", "/", "/", "/", "/", "/", "K",
    " ", "w", " ", "-", " ", "-", " ", "0", " ", "1">>

\* "//////////p w - a10 0 1": eleven rank substrings.
ElevenRanksInput ==
  <<"/", "/", "/", "/", "/", "/", "/", "/", "/", "/", "p",
    " ", "w", " ", "-", " ", "a", "1", "0", " ", "0", " ", "1">>

\* "r6k/1p4p1/7/3P3/4P2/7/6P/R5K w - d3 0 1": digits 1..7 only, and no two
\* piece letters next to each other.
GameInput ==
  <<"r", "6", "k", "/", "1", "p", "4", "p", "1", "/", "7", "/", "3", "P", "3", "/",
    "4", "P", "2", "/", "7", "/", "6", "P", "/", "R", "5", "K",
    " ", "w", " ", "-", " ", "d", "3", " ", "0", " ", "1">>

Scenarios ==
  {EmptyBoardInput, ShortInput, SevensInput, AdjacentInput, InvalidInput,
   NineRanksInput, ElevenRanksInput, GameInput}

Inputs == {b \o t : b \in Bodies, t \in Tails} \cup Scenarios

(***************************************************************************)
(* parse_fen.                                                              *)
(***************************************************************************)
Init ==
  /\ input \in Inputs
  /\ pc = "start"
  /\ pieces = <<>>
  /\ ranks = <<>>
  /\ rank_index = 0
  /\ char_index = 1
  /\ file_index = 0
  /\ expanded_ranks = EmptyMap
  /\ result = Pending

\* The rank string and the character the inner loop is at.
CurrentRank == ranks[rank_index + 1]
AtChar == pc = "chars" /\ char_index <= Len(CurrentRank)
CurrentChar == CurrentRank[char_index]
en_passant_target == pieces[4]

Return(r) == pc' = "done" /\ result' = r

\* Mutation of SectionCountError: the expected count is reported, not the found one.
SectionCountErrorExpected ==
  /\ pc = "start"
  /\ pieces' = Split(input, " ")
  /\ ranks' = Split(pieces'[1], "/")
  /\ Len(pieces') # 6
  /\ Return(Err(InvalidSectionCount(6)))
  /\ UNCHANGED <<input, rank_index, char_index, file_index, expanded_ranks>>

\* Lines 65-73: the split into sections; the let-else fails.
SectionCountError ==
  /\ pc = "start"
  /\ pieces' = Split(input, " ")
  /\ ranks' = Split(pieces'[1], "/")
  /\ Len(pieces') # 6
  /\ Return(Err(InvalidSectionCount(Len(pieces'))))
  /\ UNCHANGED <<input, rank_index, char_index, file_index, expanded_ranks>>

\* Mutation of BindSections: a slice pattern that also takes longer slices.
BindSectionsAtLeastSix ==
  /\ pc = "start"
  /\ pieces' = Split(input, " ")
  /\ ranks' = Split(pieces'[1], "/")
  /\ Len(pieces') >= 6
  /\ pc' = "ranks"
  /\ UNCHANGED <<input, rank_index, char_index, file_index, expanded_ranks, result>>

\* Lines 65-75: the split into sections; the let-else binds six sections.
BindSections ==
  /\ pc = "start"
  /\ pieces' = Split(input, " ")
  /\ ranks' = Split(pieces'[1], "/")
  /\ Len(pieces') = 6
  /\ pc' = "ranks"
  /\ UNCHANGED <<input, rank_index, char_index, file_index, expanded_ranks, result>>

\* Mutation of StartRank: the file index is not reset for the new rank.
StartRankKeepFile ==
  /\ pc = "ranks"
  /\ rank_index < Len(ranks)
  /\ char_index' = 1
  /\ pc' = "chars"
  /\ UNCHANGED <<input, pieces, ranks, rank_index, file_index, expanded_ranks, result>>

\* Lines 76-77: the outer loop takes the next rank substring.
StartRank ==
  /\ pc = "ranks"
  /\ rank_index < Len(ranks)
  /\ file_index' = 0
  /\ char_index' = 1
  /\ pc' = "chars"
  /\ UNCHANGED <<input, pieces, ranks, rank_index, expanded_ranks, result>>

\* Line 78: the characters of the rank are exhausted.
EndRank ==
  /\ pc = "chars"
  /\ char_index > Len(CurrentRank)
  /\ rank_index' = rank_index + 1
  /\ pc' = "ranks"
  /\ UNCHANGED <<input, pieces, ranks, char_index, file_index, expanded_ranks, result>>

\* Lines 80-86: a digit advances the file index.
AdvanceFile ==
  /\ AtChar
  /\ IsSkipDigit(CurrentChar)
  /\ file_index' = file_index + to_digit(CurrentChar)
  /\ char_index' = char_index + 1
  /\ UNCHANGED <<input, pc, pieces, ranks, rank_index, expanded_ranks, result>>

\* Line 89: the first argument of insert indexes past the file letters.
LocationPanic ==
  /\ AtChar
  /\ ~IsSkipDigit(CurrentChar)
  /\ LocationPanics(rank_index, file_index)
  /\ Return(Panic)
  /\ UNCHANGED <<input, pieces, ranks, rank_index, char_index, file_index, expanded_ranks>>

\* Mutation of Parsed: the square is compared with the castling section.
ParsedCastling ==
  parse_piece(CurrentChar, pieces[3] = location(rank_index, file_index))

\* What parse_piece returns for the current character (line 90).
Parsed ==
  parse_piece(CurrentChar, en_passant_target = location(rank_index, file_index))

\* Line 90: parse_piece fails and ? returns its error.
PieceError ==
  /\ AtChar
  /\ ~IsSkipDigit(CurrentChar)
  /\ ~LocationPanics(rank_index, file_index)
  /\ Parsed.kind = "Err"
  /\ Return(Parsed)
  /\ UNCHANGED <<input, pieces, ranks, rank_index, char_index, file_index, expanded_ranks>>

\* Mutation of PlacePiece: a placed piece advances the file index by one.
PlacePieceAdvancing ==
  /\ AtChar
  /\ ~IsSkipDigit(CurrentChar)
  /\ ~LocationPanics(rank_index, file_index)
  /\ Parsed.kind = "Ok"
  /\ location(rank_index, file_index) \notin DOMAIN expanded_ranks
  /\ expanded_ranks' = Insert(expanded_ranks, location(rank_index, file_index), Parsed.value)
  /\ file_index' = file_index + 1
  /\ char_index' = char_index + 1
  /\ UNCHANGED <<input, pc, pieces, ranks, rank_index, result>>

\* Lines 88-95: the piece is inserted at a square that was free.
PlacePiece ==
  /\ AtChar
  /\ ~IsSkipDigit(CurrentChar)
  /\ ~LocationPanics(rank_index, file_index)
  /\ Parsed.kind = "Ok"
  /\ location(rank_index, file_index) \notin DOMAIN expanded_ranks
  /\ expanded_ranks' = Insert(expanded_ranks, location(rank_index, file_index), Parsed.value)
  /\ char_index' = char_index + 1
  /\ UNCHANGED <<input, pc, pieces, ranks, rank_index, file_index, result>>

\* Lines 88-94: insert returns the value it replaced.
DuplicateSquareError ==
  /\ AtChar
  /\ ~IsSkipDigit(CurrentChar)
  /\ ~LocationPanics(rank_index, file_index)
  /\ Parsed.kind = "Ok"
  /\ location(rank_index, file_index) \in DOMAIN expanded_ranks
  /\ expanded_ranks' = Insert(expanded_ranks, location(rank_index, file_index), Parsed.value)
  /\ Return(Err(DuplicateSquare))
  /\ UNCHANGED <<input, pieces, ranks, rank_index, char_index, file_index>>

\* Line 100: the ranks are exhausted.
ReturnOk ==
  /\ pc = "ranks"
  /\ rank_index >= Len(ranks)
  /\ Return(Ok(expanded_ranks))
  /\ UNCHANGED <<input, pieces, ranks, rank_index, char_index, file_index, expanded_ranks>>

Next ==
  \/ SectionCountError
  \/ BindSections
  \/ StartRank
  \/ EndRank
  \/ AdvanceFile
  \/ LocationPanic
  \/ PieceError
  \/ PlacePiece
  \/ DuplicateSquareError
  \/ ReturnOk

Spec == Init /\ [][Next]_vars

(***************************************************************************)
(* The vocabulary of the properties.                                       *)
(***************************************************************************)
Done == pc = "done"
Succeeded == pc = "done" /\ result.kind = "Ok"
Failed(e) == pc = "done" /\ result = Err(e)

\* The number of parts a split on ' ' yields: one more than the spaces.
PartCount(s) == Cardinality({i \in 1..Len(s) : s[i] = " "}) + 1

PieceLetters == {"P", "N", "B", "R", "Q", "K", "p", "n", "b", "r", "q", "k"}
WhiteLetters == {"P", "N", "B", "R", "Q", "K"}
DigitsOneToEight == {"1", "2", "3", "4", "5", "6", "7", "8"}

KindOfLetter(c) ==
  CASE c \in {"P", "p"} -> "Pawn"
    [] c \in {"N", "n"} -> "Knight"
    [] c \in {"B", "b"} -> "Bishop"
    [] c \in {"R", "r"} -> "Rook"
    [] c \in {"Q", "q"} -> "Queen"
    [] c \in {"K", "k"} -> "King"

\* The positions <<r, i>> of the piece letters of the placement: the i-th
\* character of the r-th rank substring (both counted from 1).
LetterPositions ==
  {p \in UNION {{<<r, i>> : i \in 1..Len(ranks[r])} : r \in 1..Len(ranks)} :
     ranks[p[1]][p[2]] \in PieceLetters}

\* The sum of the values of the digits among the first n characters of s.
RECURSIVE DigitSum(_, _)
DigitSum(s, n) ==
  IF n = 0 THEN 0
  ELSE DigitSum(s, n - 1)
       + (IF s[n] \in Range(DigitChars) THEN IndexOf(DigitChars, s[n]) - 1 ELSE 0)

\* The square name of the letter at position p: the file letter at the sum
\* of the preceding digits, then the 0-based rank position in decimal.
KeyOf(p) ==
  <<Files[DigitSum(ranks[p[1]], p[2] - 1) + 1]>> \o ToDecimal(p[1] - 1)

\* The inner loop is at a piece letter that directly follows a piece letter.
FollowsPiece ==
  /\ AtChar
  /\ CurrentChar \in PieceLetters
  /\ char_index > 1
  /\ CurrentRank[char_index - 1] \in PieceLetters

\* Some rank substring holds two piece letters next to each other.
HasAdjacentLetters ==
  \E p \in LetterPositions : p[2] > 1 /\ ranks[p[1]][p[2] - 1] \in PieceLetters

(***************************************************************************)
(* C1.  parse_fen("8/8/8/8/8/8/8/8 w - - 0 1") returns Ok with an empty    *)
(* mapping: a rank that is the digit '8' adds no entry and no error.       *)
(* The code's arm '1'..'8' excludes '8', so this is violated.              *)
(***************************************************************************)
C1_EmptyBoard ==
  (input = EmptyBoardInput /\ Done) => result = Ok(EmptyMap)

(***************************************************************************)
(* C2.  When the split of the input on ' ' yields n # 6 parts, parse_fen   *)
(* fails with InvalidSectionCount{count: n}, whatever the parts hold, and  *)
(* no placement character is scanned: the loops are never entered and the  *)
(* mapping stays empty.                                                    *)
(***************************************************************************)
C2_SectionCount ==
  PartCount(input) # 6 =>
    /\ pc \in {"start", "done"}
    /\ expanded_ranks = EmptyMap
    /\ rank_index = 0 /\ char_index = 1 /\ file_index = 0
    /\ Done => result = Err(InvalidSectionCount(PartCount(input)))

\* Seven parts (two consecutive spaces) with an invalid placement character.
C2_Witness ==
  /\ input = <<"Z", " ", " ", " ", "w", " ", "-", " ", "-", " ", "0">>
  /\ Failed(InvalidSectionCount(7))

(***************************************************************************)
(* C3.  parse_fen ends in a returned mapping, InvalidPiece,                *)
(* InvalidSectionCount or DuplicateSquare and in no other way, and         *)
(* location is only called with a file index in 0..7.                      *)
(* Digits can push the file index past 7, so this is violated.             *)
(***************************************************************************)
C3_FourOutcomes ==
  /\ Done => \/ result.kind = "Ok"
             \/ /\ result.kind = "Err"
                /\ result.error.variant \in
                     {"InvalidPiece", "InvalidSectionCount", "DuplicateSquare"}
  /\ (AtChar /\ ~IsSkipDigit(CurrentChar)) => file_index \in 0..7

(***************************************************************************)
(* C4.  When the scan reaches a placement character c that is neither a    *)
(* piece letter nor a digit '1'..'8' (the first such one, since the scan   *)
(* stops at it), parse_fen fails with InvalidPiece{invalid_piece: c},      *)
(* whatever the file index is.  Violated when the file index is past 7.    *)
(***************************************************************************)
C4_FirstInvalid ==
  [][(AtChar /\ CurrentChar \notin PieceLetters \cup DigitsOneToEight)
       => (pc' = "done" /\ result' = Err(InvalidPiece(CurrentChar)))]_vars

(***************************************************************************)
(* C5.  On success every Pawn entry's en-passant flag is true exactly when *)
(* its key equals the fourth section of the input; so at most one pawn is  *)
(* flagged, and none when the fourth section is "-".                       *)
(***************************************************************************)
FlaggedPawns(m) == {k \in DOMAIN m : m[k].kind = "Pawn" /\ m[k].target}

C5_EnPassant ==
  Succeeded =>
    LET m == result.value
        fourth == Split(input, " ")[4]
    IN /\ \A k \in DOMAIN m : m[k].kind = "Pawn" => (m[k].target <=> k = fourth)
       /\ Cardinality(FlaggedPawns(m)) <= 1
       /\ fourth = <<"-">> => FlaggedPawns(m) = {}

\* A success with a flagged pawn and a pawn that is not flagged.
C5_Witness ==
  /\ Succeeded
  /\ FlaggedPawns(result.value) # {}
  /\ \E k \in DOMAIN result.value :
       result.value[k].kind = "Pawn" /\ ~result.value[k].target

(***************************************************************************)
(* C6.  On success the entry of every piece letter has the letter's kind   *)
(* (P Pawn, N Knight, B Bishop, R Rook, Q Queen, K King), White for an     *)
(* uppercase letter and Black for a lowercase one, and no entry is Empty.  *)
(***************************************************************************)
C6_PieceValues ==
  Succeeded =>
    LET m == result.value IN
    /\ \A p \in LetterPositions :
         LET c == ranks[p[1]][p[2]] IN
         /\ KeyOf(p) \in DOMAIN m
         /\ m[KeyOf(p)].kind = KindOfLetter(c)
         /\ m[KeyOf(p)].colour = (IF c \in WhiteLetters THEN "White" ELSE "Black")
    /\ \A k \in DOMAIN m : m[k].kind # "Empty"

\* A success with a white and a black piece of different kinds.
C6_Witness ==
  /\ Succeeded
  /\ \E k \in DOMAIN result.value : result.value[k] = King("White")
  /\ \E k \in DOMAIN result.value : result.value[k] = Rook("Black")

(***************************************************************************)
(* C7.  As claimed: parse_fen("8/8/8/8/8/8/8/8 w - -") fails with          *)
(* InvalidSectionCount{count: 5}.  The input has four sections.            *)
(***************************************************************************)
C7_CountFive ==
  (input = ShortInput /\ Done) => result = Err(InvalidSectionCount(5))

(***************************************************************************)
(* C7, amended.  parse_fen("8/8/8/8/8/8/8/8 w - -") fails with             *)
(* InvalidSectionCount{count: 4}.                                          *)
(***************************************************************************)
C7_CountFour ==
  (input = ShortInput /\ Done) => result = Err(InvalidSectionCount(4))

C7_Witness == input = ShortInput /\ Done /\ result.kind = "Err"

(***************************************************************************)
(* C8.  When the scan reaches a piece letter that directly follows a piece *)
(* letter in the same rank, parse_fen fails with DuplicateSquare; a        *)
(* returned mapping never comes from a placement with two such letters and *)
(* has one entry per letter (nothing was replaced); and DuplicateSquare is *)
(* returned only at a letter that directly follows a letter.               *)
(***************************************************************************)
C8_Adjacent ==
  /\ [][FollowsPiece => (pc' = "done" /\ result' = Err(DuplicateSquare))]_vars
  /\ [](Succeeded =>
          /\ ~HasAdjacentLetters
          /\ Cardinality(DOMAIN result.value) = Cardinality(LetterPositions))
  /\ [](Failed(DuplicateSquare) =>
          /\ rank_index < Len(ranks)
          /\ char_index \in 2..Len(CurrentRank)
          /\ CurrentChar \in PieceLetters
          /\ CurrentRank[char_index - 1] \in PieceLetters)

\* "KQ6/7/7/7/7/7/7/7 w - - 0 1" has failed at the Q.
C8_Witness ==
  /\ input = AdjacentInput
  /\ Failed(DuplicateSquare)
  /\ CurrentChar = "Q"

(***************************************************************************)
(* C9.  On success the keys of the mapping are exactly the square names of *)
(* the piece letters: file letter at the sum of the digits before the      *)
(* letter in its rank, then the 0-based position of the rank; and there is *)
(* one entry per piece letter.                                             *)
(***************************************************************************)
C9_Keys ==
  Succeeded =>
    /\ DOMAIN result.value = {KeyOf(p) : p \in LetterPositions}
    /\ Cardinality(DOMAIN result.value) = Cardinality(LetterPositions)

\* A success with several entries, one of them past the first rank and file.
C9_Witness ==
  /\ Succeeded
  /\ Cardinality(DOMAIN result.value) >= 3
  /\ <<"f", "7">> \in DOMAIN result.value
  /\ <<"a", "7">> \in DOMAIN result.value

(***************************************************************************)
(* C10.  On success every key is a file letter 'a'..'h' followed by one    *)
(* rank digit 0..7, however many '/' the placement holds.  The code takes  *)
(* every rank substring, so a ninth one gives the key "a8".                *)
(***************************************************************************)
C10_KeyShape ==
  Succeeded =>
    \A k \in DOMAIN result.value :
      /\ Len(k) = 2
      /\ k[1] \in Range(Files)
      /\ k[2] \in {"0", "1", "2", "3", "4", "5", "6", "7"}

====
